---- MODULE Spec2Model ----
(***************************************************************************)
(* Ledger cleaners of fs-adjustment, run from the "Transform" button of   *)
(* app.py: the strict-amount matchers (adv_payment_cleaner.py,             *)
(* or_cleaner.py, temp_receipt_cleaner.py), the other-payable journal      *)
(* (op_rcj_cleaner.py), the account-receivable, account-payable and        *)
(* other-payable reports of ar_cleaner.py, the advance-sales report of     *)
(* as_cleaner.py, and the row formats of to_excel.                         *)
(*                                                                         *)
(* Amounts are fixed-point numbers: an amount a stands for a / Scale       *)
(* currency units.  Row labels are the positions 1..Len(df) of the         *)
(* uploaded table (pandas counts from 0).  An output row names the input   *)
(* row its charge fields (Date, Voucher No, Company Name, Description)     *)
(* were copied from in Charge, and the input row its payment fields        *)
(* (Payment Date, Payment Voucher No) were copied from in Payment; 0 there *)
(* stands for the empty strings of an unmatched row.                       *)
(***************************************************************************)
EXTENDS Integers, Sequences, FiniteSets, TLC

VARIABLES
    step,          \* the process type selected in the sidebar (app.py main)
    uploaded_file, \* the uploaded workbook: its header and how it writes an
                   \* empty amount cell
    frame,         \* the DataFrame app.py read from it and hands to the
                   \* transform: its column names, and whether its empty
                   \* amount cells are NaN
    df,            \* the rows of that table, Debit and Credit as numbers (an
                   \* empty cell as 0)
    pc,            \* "start", "loop", "done" or "error": position in the transform
    pos,           \* position of the outer loop in the charges
    used,          \* used_payment_indices / used_payments / used_payment_idx
    output_rows,   \* output_rows / matched_rows
    result_df,     \* the table the transform returned
    workbook,      \* the format to_excel wrote each row of it with
    run,           \* 1 for the first click of the button, 2 for the second
    first_result   \* the match results of the first click

vars == <<step, uploaded_file, frame, df, pc, pos, used, output_rows, result_df,
          workbook, run, first_result>>

\* ------------------------------------------------------------------ bounds

\* rows of an uploaded table of a strict-amount cleaner
MaxRows == 3
\* rows of an uploaded other-payable (RCJ) table
MaxRcjRows == 2
\* rows of an uploaded account-payable table
MaxApRows == 3
\* rows of an uploaded account-receivable table
MaxArRows == 3
\* rows of an uploaded advance-sales table
MaxAsRows == 3
\* an amount a stands for a / Scale currency units
Scale == 2

\* ------------------------------------------------------------ arithmetic

RECURSIVE SumSeq(_)
SumSeq(s) == IF s = <<>> THEN 0 ELSE Head(s) + SumSeq(Tail(s))

\* Python's round() of a non-negative amount: to the nearest whole unit,
\* a tie to the even one.
Round(a) ==
    LET q == a \div Scale
        r == a % Scale
    IN  IF 2 * r < Scale THEN q * Scale
        ELSE IF 2 * r > Scale THEN (q + 1) * Scale
        ELSE IF q % 2 = 0 THEN q * Scale ELSE (q + 1) * Scale

Idx(d) == [i \in 1..Len(d) |-> i]

\* result_df[col].sum()
ColumnSum(rows, col) == SumSeq([i \in 1..Len(rows) |-> rows[i][col]])

\* ------------------------------------------------------------------ strings

\* A text is a sequence of tokens, " " among them.

\* str.strip()
RECURSIVE LStrip(_)
LStrip(t) == IF t # <<>> /\ t[1] = " " THEN LStrip(Tail(t)) ELSE t
RECURSIVE RStrip(_)
RStrip(t) ==
    IF t # <<>> /\ t[Len(t)] = " " THEN RStrip(SubSeq(t, 1, Len(t) - 1)) ELSE t
Strip(t) == RStrip(LStrip(t))

\* ------------------------------------------------------------------ inputs

STRICT == {"Advance Payment", "Other Receivable", "Temporary Receipt"}

\* Debit and Credit after pd.to_numeric(..., errors="coerce").fillna(0): a
\* blank or non-numeric cell is 0.  1.0, 1.5 and 2.0 units on either side, a
\* row with neither, and rows with both.
StrictRows ==
    {[Debit |-> d, Credit |-> 0] : d \in {2, 3, 4}} \cup
    {[Debit |-> 0, Credit |-> c] : c \in {2, 3, 4}} \cup
    {[Debit |-> 0, Credit |-> 0], [Debit |-> 2, Credit |-> 2],
     [Debit |-> 3, Credit |-> 4]}

Tables(rows, n) == UNION {[1..k -> rows] : k \in 0..n}

\* The header of a workbook is the set of its column names.  A workbook of a
\* strict-amount ledger comes with the six columns, with "Debit " for
\* "Debit", or without Description, Debit or Date; with the six columns its
\* empty amount cells are written as 0 or left blank.
StrictHeader ==
    {<<"Date">>, <<"Trans No">>, <<"Vendor/Client">>, <<"Description">>,
     <<"Debit">>, <<"Credit">>}
Padded(header, name) == (header \ {name}) \cup {name \o <<" ">>}
StrictFiles ==
    {[columns |-> StrictHeader, blanks |-> b] : b \in BOOLEAN} \cup
    {[columns |-> h, blanks |-> FALSE] :
        h \in {Padded(StrictHeader, <<"Debit">>)} \cup
              {StrictHeader \ {c} : c \in {<<"Description">>, <<"Debit">>, <<"Date">>}}}

RcjHeader ==
    {<<"Date">>, <<"Trans No">>, <<"Account Name">>, <<"Description">>,
     <<"Debit">>, <<"Credit">>}
RcjFiles ==
    {[columns |-> RcjHeader, blanks |-> b] : b \in BOOLEAN} \cup
    {[columns |-> Padded(RcjHeader, <<"Debit">>), blanks |-> FALSE]}

ApHeader ==
    {<<"Date">>, <<"Vendor/Client">>, <<"Trans No">>, <<"Description">>,
     <<"Debit">>, <<"Credit">>}
ApFiles == {[columns |-> ApHeader, blanks |-> FALSE]}

\* the columns transform_other_payable selects (line 177); a workbook comes
\* with all of them or without Currency
OpHeader ==
    {<<"Date">>, <<"Vendor/Client">>, <<"Trans No">>, <<"Description">>,
     <<"Currency">>, <<"Rate">>, <<"Debit">>, <<"Credit">>}
OpFiles ==
    {[columns |-> h, blanks |-> FALSE] : h \in {OpHeader, OpHeader \ {<<"Currency">>}}}

\* the columns transform_account_receivable selects (lines 87-91); a workbook
\* comes with all of them or without Rate
ArHeader ==
    {<<"Date">>, <<"Invoice No">>, <<"Transaction Type">>, <<"Customer">>,
     <<"Description">>, <<"Currency">>, <<"Original Amount">>, <<"Rate">>,
     <<"Amount">>, <<"Payment Date">>, <<"Voucher No">>, <<"Payment Amount">>}
ArFiles ==
    {[columns |-> h, blanks |-> FALSE] : h \in {ArHeader, ArHeader \ {<<"Rate">>}}}

\* pd.read_excel(uploaded_file)
read_excel(file) == file

\* df.columns.str.strip()
StripColumns(columns) == {Strip(c) : c \in columns}

\* A date is a day number; the days 1 and 2 are of one month, day 3 is of
\* the next.  The day 0 stands for NaT, what pd.to_datetime(...,
\* errors="coerce") makes of a cell that is no date.
MonthOf(day) == (day + 1) \div 2
notna(day) == day # 0

\* the labels of the buckets of rows without a date: "00-00", and the "nan"
\* that strftime leaves for NaT
Sentinel == 0
NaN == -1

\* pd.to_datetime(df[date_col]).dt.strftime("%y-%m")
YearMonth(day) == IF notna(day) THEN MonthOf(day) ELSE NaN

\* rows of the account-payable ledger: invoices A and B of Acme on three
\* days and of Beta on the first and an invoice A of Acme without a date,
\* with 1.5 units credited, an invoice A of Acme with nothing credited, and
\* payment rows "A_paid", "A paid",
\* "A,B_paid" and "A,A_paid" on two days with 1.0 unit debited
ApRows ==
    {[Date |-> day, Vendor |-> "Acme", Trans_No |-> t, Debit |-> 0, Credit |-> 3] :
        day \in {1, 2, 3}, t \in {<<"A">>, <<"B">>}} \cup
    {[Date |-> 1, Vendor |-> "Beta", Trans_No |-> t, Debit |-> 0, Credit |-> 3] :
        t \in {<<"A">>, <<"B">>}} \cup
    {[Date |-> 1, Vendor |-> "Acme", Trans_No |-> <<"A">>, Debit |-> 0, Credit |-> 0],
     [Date |-> 0, Vendor |-> "Acme", Trans_No |-> <<"A">>, Debit |-> 0, Credit |-> 3]} \cup
    {[Date |-> day, Vendor |-> "Acme", Trans_No |-> t, Debit |-> 2, Credit |-> 0] :
        day \in {1, 2},
        t \in {<<"A", "_", "paid">>, <<"A", " ", "paid">>,
               <<"A", ",", "B", "_", "paid">>, <<"A", ",", "A", "_", "paid">>}}

\* rows of the other-payable ledger, which has the columns of the
\* account-payable one: an invoice A of Acme on two days of two months and
\* without a date, an invoice of Beta, and a payment row "A_paid"
OpRows ==
    {r \in ApRows :
        \/ r.Trans_No = <<"A">> /\ r.Credit = 3
              /\ (r.Vendor = "Beta" \/ r.Date \in {0, 1, 3})
        \/ r.Trans_No = <<"A", "_", "paid">> /\ r.Date = 1}

\* rows of the account-receivable ledger: invoices "1" and "12" of two
\* customers on three days, an invoice "a" of Beta and an invoice "1" of
\* Acme without a date, 1.5 units each, and three receipts, one of them with
\* "A12" as its description
ArRows ==
    {[Date |-> day, InvoiceNo |-> n, TransactionType |-> "Sales Invoice",
      Customer |-> c, Description |-> <<>>, OriginalAmount |-> 3,
      PaymentAmount |-> 0] :
        day \in {1, 2, 3}, n \in {<<"1">>, <<"1", "2">>},
        c \in {<<"Acme">>, <<"Beta">>}} \cup
    {[Date |-> 2, InvoiceNo |-> <<"a">>, TransactionType |-> "Sales Invoice",
      Customer |-> <<"Beta">>, Description |-> <<>>, OriginalAmount |-> 3,
      PaymentAmount |-> 0],
     [Date |-> 0, InvoiceNo |-> <<"1">>, TransactionType |-> "Sales Invoice",
      Customer |-> <<"Acme">>, Description |-> <<>>, OriginalAmount |-> 3,
      PaymentAmount |-> 0]} \cup
    {[Date |-> 2, InvoiceNo |-> <<>>, TransactionType |-> "Sales Receipt",
      Customer |-> r[1], Description |-> r[2], OriginalAmount |-> 0,
      PaymentAmount |-> r[3]] :
        r \in {<<<<"Acme">>, <<"1", "2">>, 4>>,
               <<<<"Acme", " ">>, <<"2", "1">>, 2>>,
               <<<<"Beta">>, <<"A", "1", "2">>, 2>>}}

\* the columns transform_advance_sales selects (lines 12-15)
AsHeader ==
    {<<"Customer">>, <<"Date">>, <<"Inv No">>, <<"Tenant ID">>,
     <<"Start Month">>, <<"End Month">>, <<"Number of Months">>,
     <<"Total Price">>}
AsFiles == {[columns |-> AsHeader, blanks |-> FALSE]}

\* rows of the advance-sales ledger: items of invoice 1 of two customers on
\* three days, for one month or two, and an item of invoice 2 of Acme; every
\* item starts in the month of the days 1 and 2 and costs 1.0 unit
AsRows ==
    {[Customer |-> c, InvNo |-> 1, Date |-> day, Term |-> t, StartMonth |-> 1,
      TotalPrice |-> 2] :
        c \in {"Acme", "Beta"}, day \in {1, 2, 3}, t \in {1, 2}} \cup
    {[Customer |-> "Acme", InvNo |-> 2, Date |-> 1, Term |-> 2, StartMonth |-> 1,
      TotalPrice |-> 2]}

\* journal lines of the other-payable (RCJ) ledger: two transaction numbers,
\* the four accounts the cleaner reads and one it does not, an amount of 1.0
\* on the debit side, on the credit side, or on neither
RcjRows ==
    {[TransNo |-> t, AccountName |-> a, Debit |-> dc[1], Credit |-> dc[2]] :
        t \in {1, 2},
        a \in {"Other Payable", "Exchange Loss", "Exchange Gain",
               "Other Payable (Revcomm Japan)", "Bank"},
        dc \in {<<2, 0>>, <<0, 2>>, <<0, 0>>}}

\* ------------------------------------------------------- app.py: to_excel

\* the first cell of a report row as a text: of the column "Sales Invoice
\* Date" in the account-receivable report, of the column "Date" in the
\* others.  <<"date">> stands for a date and <<"None">> for None, which are
\* no strings.
FirstCell(s, r) ==
    CASE s = "Account Receivable" -> <<r.SalesInvoiceDate>>
      [] s \in {"Account Payable", "Other Payable"} -> r.Date
      [] OTHER -> <<r.Date>>
IsString(cell) == cell \notin {<<"date">>, <<"None">>}

\* the format to_excel writes the k-th of n rows with (lines 73-83):
\* subtotal_format when the first cell is a string that holds "Subtotal",
\* else total_format when the row is the last, else none
RowFormat(cell, k, n) ==
    IF IsString(cell) /\ \E i \in DOMAIN cell : cell[i] = "Subtotal"
    THEN "subtotal"
    ELSE IF k = n THEN "total" ELSE "normal"

to_excel(s, report) ==
    [k \in 1..Len(report) |-> RowFormat(FirstCell(s, report[k]), k, Len(report))]

\* ------------------------------------------- adv_payment_cleaner.py

\* lines 5-9, the same in or_cleaner.py and op_rcj_cleaner.py: the column
\* names of the table are stripped, and its Debit and Credit columns
\* replaced by pd.to_numeric(...).fillna(0), on the table object the caller
\* passed.  df["Debit"] raises KeyError when there is no such column.
normalize(fr) ==
    IF {<<"Debit">>, <<"Credit">>} \subseteq StripColumns(fr.columns)
    THEN [columns |-> StripColumns(fr.columns), blanks |-> FALSE]
    ELSE [columns |-> StripColumns(fr.columns), blanks |-> fr.blanks]

\* the columns the loop body reads with row[...]: Date in
\* adv_payment_cleaner.py and or_cleaner.py, which read the others with
\* row.get(..., ""); all four in temp_receipt_cleaner.py
LoopColumns(s) ==
    IF s = "Temporary Receipt"
    THEN {<<"Date">>, <<"Trans No">>, <<"Vendor/Client">>, <<"Description">>}
    ELSE {<<"Date">>}

advances(d) == SelectSeq(Idx(d), LAMBDA i : d[i].Debit > 0)
adv_payments(d) == SelectSeq(Idx(d), LAMBDA i : d[i].Credit > 0)

\* a scan that keeps the last qualifying payment, not the first
RECURSIVE AdvScanLast(_, _, _, _, _)
AdvScanLast(d, pays, k, usedset, amt) ==
    IF k > Len(pays) THEN 0
    ELSE LET later == AdvScanLast(d, pays, k + 1, usedset, amt)
         IN  IF later # 0 THEN later
             ELSE IF pays[k] \notin usedset /\ amt = d[pays[k]].Credit
                  THEN pays[k] ELSE 0

\* a scan that gives up after the first payment it looks at
AdvScanFirstOnly(d, pays, k, usedset, amt) ==
    IF k > Len(pays) THEN 0
    ELSE IF pays[k] \notin usedset /\ amt = d[pays[k]].Credit THEN pays[k]
    ELSE 0

\* the inner loop over payments.iterrows(), from its k-th row on: the label
\* of the first payment that is not used and whose Credit equals the
\* amount, 0 when the loop ends without a break
RECURSIVE AdvScan(_, _, _, _, _)
AdvScan(d, pays, k, usedset, amt) ==
    IF k > Len(pays) THEN 0
    ELSE IF pays[k] \notin usedset /\ amt = d[pays[k]].Credit THEN pays[k]
    ELSE AdvScan(d, pays, k + 1, usedset, amt)

AdvMatchedRow(d, a, p) ==
    [Date |-> "date", Charge |-> a, Amount |-> d[a].Debit,
     Payment |-> p, PaymentAmount |-> d[p].Credit, Outstanding |-> 0]

AdvUnmatchedRow(d, a) ==
    [Date |-> "date", Charge |-> a, Amount |-> d[a].Debit,
     Payment |-> 0, PaymentAmount |-> 0, Outstanding |-> d[a].Debit]

\* an iteration that emits no row for an advance without a payment
AdvIterSkipUnmatched ==
    /\ step = "Advance Payment" /\ pc = "loop"
    /\ LoopColumns(step) \subseteq frame.columns
    /\ pos <= Len(advances(df))
    /\ LET a == advances(df)[pos]
           p == AdvScan(df, adv_payments(df), 1, used, df[a].Debit)
       IN  IF p # 0
           THEN /\ output_rows' = Append(output_rows, AdvMatchedRow(df, a, p))
                /\ used' = used \cup {p}
           ELSE /\ output_rows' = output_rows
                /\ used' = used
    /\ pos' = pos + 1
    /\ UNCHANGED <<step, uploaded_file, frame, df, pc, result_df, workbook, run, first_result>>

\* one iteration of "for _, adv in advances.iterrows()"
AdvIter ==
    /\ step = "Advance Payment" /\ pc = "loop"
    /\ LoopColumns(step) \subseteq frame.columns
    /\ pos <= Len(advances(df))
    /\ LET a == advances(df)[pos]
           p == AdvScan(df, adv_payments(df), 1, used, df[a].Debit)
       IN  IF p # 0
           THEN /\ output_rows' = Append(output_rows, AdvMatchedRow(df, a, p))
                /\ used' = used \cup {p}
           ELSE /\ output_rows' = Append(output_rows, AdvUnmatchedRow(df, a))
                /\ used' = used
    /\ pos' = pos + 1
    /\ UNCHANGED <<step, uploaded_file, frame, df, pc, result_df, workbook, run, first_result>>

\* the TOTAL row of the three-column reports
TotalRow(rows) ==
    [Date |-> "TOTAL", Charge |-> 0, Amount |-> ColumnSum(rows, "Amount"),
     Payment |-> 0, PaymentAmount |-> ColumnSum(rows, "PaymentAmount"),
     Outstanding |-> ColumnSum(rows, "Outstanding")]

\* pd.DataFrame(output_rows) and the TOTAL row.  pd.DataFrame([]) has no
\* columns: result_df["Amount"] raises KeyError when no row was emitted.
AdvTotal ==
    /\ step = "Advance Payment" /\ pc = "loop"
    /\ pos > Len(advances(df))
    /\ IF output_rows = <<>>
       THEN pc' = "error" /\ result_df' = <<>>
       ELSE pc' = "done" /\ result_df' = Append(output_rows, TotalRow(output_rows))
    /\ workbook' = to_excel(step, result_df')
    /\ UNCHANGED <<step, uploaded_file, frame, df, pos, used, output_rows, run, first_result>>

\* ------------------------------------------------------ or_cleaner.py

ors(d) == SelectSeq(Idx(d), LAMBDA i : d[i].Debit > 0)
or_payments(d) == SelectSeq(Idx(d), LAMBDA i : d[i].Credit > 0)

\* a scan without the test of used_payment_indices
RECURSIVE OrScanIgnoreUsed(_, _, _, _, _)
OrScanIgnoreUsed(d, pays, k, usedset, or_amount) ==
    IF k > Len(pays) THEN 0
    ELSE IF Round(d[pays[k]].Credit) = or_amount THEN k
    ELSE OrScanIgnoreUsed(d, pays, k + 1, usedset, or_amount)

\* the inner loop over payments.iterrows() after reset_index(drop=True): the
\* position in payments of the first payment whose rounded Credit equals
\* the rounded amount and that is not used, 0 without a break
RECURSIVE OrScan(_, _, _, _, _)
OrScan(d, pays, k, usedset, or_amount) ==
    IF k > Len(pays) THEN 0
    ELSE IF Round(d[pays[k]].Credit) = or_amount /\ k \notin usedset THEN k
    ELSE OrScan(d, pays, k + 1, usedset, or_amount)

OrMatchedRow(d, o, p) ==
    [Date |-> "date", Charge |-> o, OriginalAmount |-> d[o].Debit,
     Amount |-> Round(d[o].Debit), Payment |-> p,
     PaymentAmount |-> Round(d[p].Credit), EndingBalance |-> 0]

OrUnmatchedRow(d, o) ==
    [Date |-> "date", Charge |-> o, OriginalAmount |-> d[o].Debit,
     Amount |-> Round(d[o].Debit), Payment |-> 0,
     PaymentAmount |-> 0, EndingBalance |-> Round(d[o].Debit)]

\* one iteration of "for _, or_row in ors.iterrows()"
OrIter ==
    /\ step = "Other Receivable" /\ pc = "loop"
    /\ LoopColumns(step) \subseteq frame.columns
    /\ pos <= Len(ors(df))
    /\ LET o == ors(df)[pos]
           k == OrScan(df, or_payments(df), 1, used, Round(df[o].Debit))
       IN  IF k # 0
           THEN /\ used' = used \cup {k}
                /\ output_rows' =
                       Append(output_rows, OrMatchedRow(df, o, or_payments(df)[k]))
           ELSE /\ used' = used
                /\ output_rows' = Append(output_rows, OrUnmatchedRow(df, o))
    /\ pos' = pos + 1
    /\ UNCHANGED <<step, uploaded_file, frame, df, pc, result_df, workbook, run, first_result>>

OrTotalRow(rows) ==
    [Date |-> "TOTAL", Charge |-> 0,
     OriginalAmount |-> ColumnSum(rows, "OriginalAmount"),
     Amount |-> ColumnSum(rows, "Amount"), Payment |-> 0,
     PaymentAmount |-> ColumnSum(rows, "PaymentAmount"),
     EndingBalance |-> ColumnSum(rows, "EndingBalance")]

OrTotal ==
    /\ step = "Other Receivable" /\ pc = "loop"
    /\ pos > Len(ors(df))
    /\ IF output_rows = <<>>
       THEN pc' = "error" /\ result_df' = <<>>
       ELSE pc' = "done" /\ result_df' = Append(output_rows, OrTotalRow(output_rows))
    /\ workbook' = to_excel(step, result_df')
    /\ UNCHANGED <<step, uploaded_file, frame, df, pos, used, output_rows, run, first_result>>

\* ------------------------------------------- temp_receipt_cleaner.py

\* a payment frame that misses the first row of the table
pay_df_below_first(d) == SelectSeq(Idx(d), LAMBDA i : d[i].Debit > 0 /\ i > 1)

tr_df(d) == SelectSeq(Idx(d), LAMBDA i : d[i].Credit > 0)
pay_df(d) == SelectSeq(Idx(d), LAMBDA i : d[i].Debit > 0)

\* pay_df[(pay_df["debit"] == tr_amount) & (~pay_df.index.isin(used))]
payment_match(d, usedset, tr_amount) ==
    SelectSeq(pay_df(d), LAMBDA i : d[i].Debit = tr_amount /\ i \notin usedset)

\* a matched row that reports the receipt's amount as outstanding
TrMatchedRowOwed(d, t, p) ==
    [Date |-> "date", Charge |-> t, Amount |-> d[t].Credit,
     Payment |-> p, PaymentAmount |-> d[p].Debit,
     Outstanding |-> d[t].Credit]

TrMatchedRow(d, t, p) ==
    [Date |-> "date", Charge |-> t, Amount |-> d[t].Credit,
     Payment |-> p, PaymentAmount |-> d[p].Debit,
     Outstanding |-> d[t].Credit - d[p].Debit]

\* an unmatched row that reports nothing outstanding
TrUnmatchedRowZero(d, t) ==
    [Date |-> "date", Charge |-> t, Amount |-> d[t].Credit,
     Payment |-> 0, PaymentAmount |-> 0, Outstanding |-> 0]

\* the row of a temporary receipt without a payment: all of it outstanding
TrUnmatchedRow(d, t) ==
    [Date |-> "date", Charge |-> t, Amount |-> d[t].Credit,
     Payment |-> 0, PaymentAmount |-> 0, Outstanding |-> d[t].Credit]

\* an iteration that takes any matching payment, not the first
TrIterAnyMatch ==
    /\ step = "Temporary Receipt" /\ pc = "loop"
    /\ LoopColumns(step) \subseteq frame.columns
    /\ pos <= Len(tr_df(df))
    /\ LET t == tr_df(df)[pos]
           m == payment_match(df, used, df[t].Credit)
       IN  IF m # <<>>
           THEN \E k \in DOMAIN m :
                    /\ output_rows' = Append(output_rows, TrMatchedRow(df, t, m[k]))
                    /\ used' = used \cup {m[k]}
           ELSE /\ output_rows' = Append(output_rows, TrUnmatchedRow(df, t))
                /\ used' = used
    /\ pos' = pos + 1
    /\ UNCHANGED <<step, uploaded_file, frame, df, pc, result_df, workbook, run, first_result>>

\* one iteration of "for idx, tr_row in tr_df.iterrows()"
TrIter ==
    /\ step = "Temporary Receipt" /\ pc = "loop"
    /\ LoopColumns(step) \subseteq frame.columns
    /\ pos <= Len(tr_df(df))
    /\ LET t == tr_df(df)[pos]
           m == payment_match(df, used, df[t].Credit)
       IN  IF m # <<>>
           THEN /\ output_rows' = Append(output_rows, TrMatchedRow(df, t, m[1]))
                /\ used' = used \cup {m[1]}
           ELSE /\ output_rows' = Append(output_rows, TrUnmatchedRow(df, t))
                /\ used' = used
    /\ pos' = pos + 1
    /\ UNCHANGED <<step, uploaded_file, frame, df, pc, result_df, workbook, run, first_result>>

TrTotal ==
    /\ step = "Temporary Receipt" /\ pc = "loop"
    /\ pos > Len(tr_df(df))
    /\ IF output_rows = <<>>
       THEN pc' = "error" /\ result_df' = <<>>
       ELSE pc' = "done" /\ result_df' = Append(output_rows, TotalRow(output_rows))
    /\ workbook' = to_excel(step, result_df')
    /\ UNCHANGED <<step, uploaded_file, frame, df, pos, used, output_rows, run, first_result>>

\* --------------------------------------------------- op_rcj_cleaner.py

\* a cell of a numeric column: a number, or the empty string
Num(n) == [blank |-> FALSE, v |-> n]
BlankCell == [blank |-> TRUE, v |-> 0]
\* x if x != 0 else ""
NumOrBlank(n) == IF n # 0 THEN Num(n) ELSE BlankCell

\* the keys of df.groupby(col), in ascending order
RECURSIVE SortedKeys(_)
SortedKeys(S) ==
    IF S = {} THEN <<>>
    ELSE LET m == CHOOSE x \in S : \A y \in S : x <= y
         IN  <<m>> \o SortedKeys(S \ {m})

\* group.loc[group["Account Name"] == account, col].sum()
AccountSum(d, group, account, col) ==
    SumSeq([k \in 1..Len(group) |->
               IF d[group[k]].AccountName = account THEN d[group[k]][col] ELSE 0])

\* the row of one Trans No group; base_row is the group's first row
RcjRow(d, trans_no) ==
    LET group == SelectSeq(Idx(d), LAMBDA i : d[i].TransNo = trans_no)
        amount == AccountSum(d, group, "Other Payable", "Debit")
        exch_loss == 0 - AccountSum(d, group, "Exchange Loss", "Debit")
        exch_gain == AccountSum(d, group, "Exchange Gain", "Credit")
        amount_after ==
            AccountSum(d, group, "Other Payable (Revcomm Japan)", "Credit")
    IN  [Date |-> "date", Charge |-> group[1], VoucherNo |-> trans_no,
         Amount |-> NumOrBlank(amount),
         ExchangeGainLoss |-> NumOrBlank(exch_loss + exch_gain),
         AmountAfter |-> NumOrBlank(amount_after),
         PaymentAmount |-> BlankCell,
         Outstanding |-> Num(amount)]

\* a column sum that leaves the first row out
ReplaceBlankSumSkipFirst(rows, col) ==
    SumSeq([i \in 1..Len(rows) |->
               IF rows[i][col].blank \/ i = 1 THEN 0 ELSE rows[i][col].v])

\* df_cleaned[col].replace("", 0).sum()
ReplaceBlankSum(rows, col) ==
    SumSeq([i \in 1..Len(rows) |-> IF rows[i][col].blank THEN 0 ELSE rows[i][col].v])

RcjTotalRow(rows) ==
    [Date |-> "TOTAL", Charge |-> 0, VoucherNo |-> 0,
     Amount |-> Num(ReplaceBlankSum(rows, "Amount")),
     ExchangeGainLoss |-> Num(ReplaceBlankSum(rows, "ExchangeGainLoss")),
     AmountAfter |-> Num(ReplaceBlankSum(rows, "AmountAfter")),
     PaymentAmount |-> BlankCell,
     Outstanding |-> Num(ReplaceBlankSum(rows, "Outstanding"))]

\* transform_other_payable_rcj: the column names stripped and Debit and
\* Credit made numbers on the table it is given (lines 5-9), then one row
\* per Trans No in ascending order and the TOTAL row.  With no group, df_cleaned has no columns and
\* df_cleaned["Amount"] raises KeyError.
RcjTransform ==
    /\ step = "Other Payable(RCJ)" /\ pc = "start"
    /\ LET keys == SortedKeys({df[i].TransNo : i \in DOMAIN df})
           grouped == [k \in 1..Len(keys) |-> RcjRow(df, keys[k])]
       IN  /\ output_rows' = grouped
           /\ IF grouped = <<>>
              THEN pc' = "error" /\ result_df' = <<>>
              ELSE pc' = "done" /\ result_df' = Append(grouped, RcjTotalRow(grouped))
    /\ workbook' = to_excel(step, result_df')
    /\ frame' = normalize(frame)
    /\ UNCHANGED <<step, uploaded_file, df, pos, used, run, first_result>>

\* ------------------------------- ar_cleaner.py: transform_account_payable

\* A transaction number is a sequence of tokens: invoice numbers ("A", "B"),
\* the marker "paid" (in any case), "_", "," and " ".

\* .str.contains(r"paid", case=False)
is_payment(t) == \E k \in DOMAIN t : t[k] = "paid"

\* re.sub(r"(_?paid)", "", t, flags=re.IGNORECASE)
RECURSIVE RemovePaid(_)
RemovePaid(t) ==
    IF t = <<>> THEN <<>>
    ELSE IF Len(t) >= 2 /\ t[1] = "_" /\ t[2] = "paid" THEN RemovePaid(Tail(Tail(t)))
    ELSE IF t[1] = "paid" THEN RemovePaid(Tail(t))
    ELSE <<t[1]>> \o RemovePaid(Tail(t))

\* str.split(","): k is the position the current piece starts at
RECURSIVE SplitFrom(_, _, _)
SplitFrom(t, k, i) ==
    IF i > Len(t) THEN <<SubSeq(t, k, Len(t))>>
    ELSE IF t[i] = "," THEN <<SubSeq(t, k, i - 1)>> \o SplitFrom(t, i + 1, i + 1)
    ELSE SplitFrom(t, k, i + 1)
Split(t) == SplitFrom(t, 1, 1)

clean_trans_no(t) == Strip(RemovePaid(t))

\* invoice rows, those with nothing credited left out
ap_df_positive(d) ==
    SelectSeq(Idx(d), LAMBDA i : ~is_payment(d[i].Trans_No) /\ d[i].Credit > 0)

\* df[~df["is_payment"]]: the invoice rows, and df[df["is_payment"]]: the
\* payment rows
ap_df(d) == SelectSeq(Idx(d), LAMBDA i : ~is_payment(d[i].Trans_No))
ap_pay_df(d) == SelectSeq(Idx(d), LAMBDA i : is_payment(d[i].Trans_No))

\* the fragments of one payment row: one per piece of its cleaned
\* transaction number, the row's Debit on the first and 0 on the others
PaymentFragments(d, p) ==
    LET trans_list == Split(clean_trans_no(d[p].Trans_No))
    IN  [i \in 1..Len(trans_list) |->
            [Clean_Trans_No |-> RemovePaid(Strip(trans_list[i])),
             PaymentDate |-> d[p].Date,
             PaymentVoucherNo |-> d[p].Trans_No,
             PaymentAmount |-> IF i = 1 THEN d[p].Debit ELSE 0,
             Payment |-> p]]

RECURSIVE Flatten(_)
Flatten(ss) == IF ss = <<>> THEN <<>> ELSE Head(ss) \o Flatten(Tail(ss))

expanded_payments(d) ==
    Flatten([k \in 1..Len(ap_pay_df(d)) |-> PaymentFragments(d, ap_pay_df(d)[k])])

\* the columns of a fragment, the row it came from left out
FragmentColumns(f) ==
    <<f.Clean_Trans_No, f.PaymentDate, f.PaymentVoucherNo, f.PaymentAmount>>

\* DataFrame.drop_duplicates(): the first of equal rows is kept
DropDuplicates(fs) ==
    LET keep == SelectSeq(Idx(fs), LAMBDA i :
                    \A j \in 1..(i - 1) :
                        FragmentColumns(fs[j]) # FragmentColumns(fs[i]))
    IN  [k \in 1..Len(keep) |-> fs[keep[k]]]

\* the rows ap_df.merge(pay_expanded_df, how="left", on="Clean_Trans_No")
\* gives for one invoice row, the columns of lines 380-399 filled in: one
\* per fragment with the row's cleaned transaction number, in fragment order,
\* or one with no payment.  A cell of the Date column is a sequence of
\* tokens, <<"date">> for a date.  A row with a payment voucher gets its own
\* Original Amount as Payment Amount (lines 391-396).  Fragment is the row
\* of pay_expanded_df the payment columns came from.
ApRow(d, a, f) ==
    [Date |-> <<"date">>, DateValue |-> d[a].Date, VoucherNo |-> <<>>,
     Vendor |-> d[a].Vendor, Charge |-> a,
     OriginalAmount |-> d[a].Credit, Amount |-> Round(d[a].Credit),
     Payment |-> f.Payment, Fragment |-> FragmentColumns(f),
     PaymentAmount |-> d[a].Credit,
     EndingBalance |-> d[a].Credit - Round(d[a].Credit)]

ApRowUnpaid(d, a) ==
    [Date |-> <<"date">>, DateValue |-> d[a].Date, VoucherNo |-> <<>>,
     Vendor |-> d[a].Vendor, Charge |-> a,
     OriginalAmount |-> d[a].Credit, Amount |-> Round(d[a].Credit),
     Payment |-> 0, Fragment |-> <<>>, PaymentAmount |-> 0,
     EndingBalance |-> 0 - Round(d[a].Credit)]

\* a merge that keeps one row per invoice: the first matching fragment
MergeFirstOnly(d, a, frags) ==
    LET hits == SelectSeq(frags, LAMBDA f :
                    f.Clean_Trans_No = clean_trans_no(d[a].Trans_No))
    IN  IF hits = <<>> THEN <<ApRowUnpaid(d, a)>>
        ELSE <<ApRow(d, a, hits[1])>>

\* ap_df.merge(pay_expanded_df, how="left", on="Clean_Trans_No") for one
\* invoice: one row per fragment with its cleaned number, one unpaid row
\* when there is none
MergeRows(d, a, frags) ==
    LET hits == SelectSeq(frags, LAMBDA f :
                    f.Clean_Trans_No = clean_trans_no(d[a].Trans_No))
    IN  IF hits = <<>> THEN <<ApRowUnpaid(d, a)>>
        ELSE [k \in 1..Len(hits) |-> ApRow(d, a, hits[k])]

\* lambda x: f"{x:%y-%m}" if pd.notna(x) else "00-00" (lines 403, 405)
ap_year_month(day) == IF notna(day) THEN MonthOf(day) ELSE Sentinel

\* "AP-" + yy-mm + "-" + groupby(yy-mm).cumcount() + 1: a row's number is its
\* rank among the rows of its month in the order the merge left them in
ap_voucher_numbers(rows) ==
    [k \in 1..Len(rows) |->
        [rows[k] EXCEPT !.VoucherNo =
            <<"AP", ap_year_month(rows[k].DateValue),
              Cardinality({j \in 1..k :
                  ap_year_month(rows[j].DateValue)
                      = ap_year_month(rows[k].DateValue)})>>]]

\* the frame merged of lines 373-406
merged(d) ==
    LET frags == DropDuplicates(expanded_payments(d))
    IN  ap_voucher_numbers(
            Flatten([k \in 1..Len(ap_df(d)) |-> MergeRows(d, ap_df(d)[k], frags)]))

\* the order of groupby's keys: the vendors' names in ascending order
VendorRank(v) == CASE v = "Acme" -> 1 [] v = "Beta" -> 2

RECURSIVE SortedVendors(_)
SortedVendors(S) ==
    IF S = {} THEN <<>>
    ELSE LET m == CHOOSE x \in S : \A y \in S : VendorRank(x) <= VendorRank(y)
         IN  <<m>> \o SortedVendors(S \ {m})

\* the subtotal row of a vendor: "Date": f"Subtotal {vendor}", the sums of
\* the four amount columns, "" elsewhere
ApSubtotalRow(vendor, group) ==
    [Date |-> <<"Subtotal", " ", vendor>>, DateValue |-> 0, VoucherNo |-> <<>>,
     Vendor |-> "", Charge |-> 0,
     OriginalAmount |-> ColumnSum(group, "OriginalAmount"),
     Amount |-> ColumnSum(group, "Amount"),
     Payment |-> 0, PaymentAmount |-> ColumnSum(group, "PaymentAmount"),
     EndingBalance |-> ColumnSum(group, "EndingBalance")]

\* "for vendor, group in df_transformed.groupby("Vendor", dropna=False)"
ApGrouped(rows) ==
    LET vendors == SortedVendors({rows[i].Vendor : i \in DOMAIN rows})
    IN  Flatten([k \in 1..Len(vendors) |->
            LET group == SelectSeq(rows, LAMBDA r : r.Vendor = vendors[k])
            IN  Append(group, ApSubtotalRow(vendors[k], group))])

\* transform_account_payable.  With no payment row pay_expanded_df has no
\* columns and the merge raises KeyError; with no invoice row there is no
\* group and pd.concat([]) raises ValueError.
ApTransform ==
    /\ step = "Account Payable" /\ pc = "start"
    /\ output_rows' = IF ap_pay_df(df) = <<>> THEN <<>> ELSE merged(df)
    /\ IF ap_pay_df(df) = <<>> \/ ap_df(df) = <<>>
       THEN pc' = "error" /\ result_df' = <<>>
       ELSE pc' = "done" /\ result_df' = ApGrouped(merged(df))
    /\ workbook' = to_excel(step, result_df')
    /\ UNCHANGED <<step, uploaded_file, frame, df, pos, used, run, first_result>>

\* --------------------------------- ar_cleaner.py: transform_other_payable

\* transform_other_payable: df[[...]] (line 177) raises KeyError when one of
\* the eight columns is missing; with all of them the function gets to line
\* 212 and reads ap_df, a name that is bound neither in the function nor in
\* the module, which raises NameError, whatever the table holds
OpTransform ==
    /\ step = "Other Payable" /\ pc = "start"
    /\ pc' = "error" /\ result_df' = <<>> /\ output_rows' = <<>>
    /\ workbook' = <<>>
    /\ UNCHANGED <<step, uploaded_file, frame, df, pos, used, run, first_result>>

\* ---------------------------- ar_cleaner.py: transform_account_receivable

\* An invoice number and a description are sequences of characters (digits
\* and the letter a in either case), a customer name a sequence of tokens,
\* " " among them.

\* Transaction Type .str.lower().str.contains(word)
TypeContains(t, word) ==
    CASE t = "Sales Invoice" -> word = "invoice"
      [] t = "Sales Receipt" -> word = "receipt"
      [] OTHER -> FALSE

ar_invoices(d) ==
    SelectSeq(Idx(d), LAMBDA i : TypeContains(d[i].TransactionType, "invoice"))
ar_receipts(d) ==
    SelectSeq(Idx(d), LAMBDA i : TypeContains(d[i].TransactionType, "receipt"))

\* the letter case str.contains(..., case=False) ignores
LowerChar(ch) == IF ch = "A" THEN "a" ELSE ch
Lower(t) == [k \in DOMAIN t |-> LowerChar(t[k])]

\* .str.contains(inv_no, case=False): inv_no occurs in desc, the case of
\* letters ignored (a number of letters and digits is a regular expression
\* that matches itself)
Contains(desc, inv_no) ==
    \E k \in 1..(Len(desc) + 1) :
        /\ k + Len(inv_no) - 1 <= Len(desc)
        /\ SubSeq(Lower(desc), k, k + Len(inv_no) - 1) = Lower(inv_no)

\* the receipts of the invoice's customer whose description holds its number
receipt_match(d, inv) ==
    SelectSeq(ar_receipts(d), LAMBDA i :
        /\ Strip(d[i].Customer) = Strip(d[inv].Customer)
        /\ Contains(d[i].Description, Strip(d[inv].InvoiceNo)))

\* the invoices frame of match_sales_receipts before its loop (lines 24-29)
InvoiceRow(d, inv) ==
    [Charge |-> inv, Date |-> d[inv].Date, Customer |-> d[inv].Customer,
     OriginalAmount |-> d[inv].OriginalAmount,
     Receipt |-> 0, SalesReceiptAmount |-> 0]

\* transform_account_receivable up to the loop of match_sales_receipts: on a
\* copy of the table, df[[...]] raises KeyError when one of the twelve
\* columns is not among the stripped column names
ArStart ==
    /\ step = "Account Receivable" /\ pc = "start"
    /\ pos' = 1 /\ used' = {}
    /\ IF ArHeader \subseteq StripColumns(frame.columns)
       THEN /\ pc' = "loop"
            /\ output_rows' = [k \in 1..Len(ar_invoices(df)) |->
                                  InvoiceRow(df, ar_invoices(df)[k])]
       ELSE pc' = "error" /\ output_rows' = <<>>
    /\ UNCHANGED <<step, uploaded_file, frame, df, result_df, workbook, run, first_result>>

\* a choice of the last receipt of receipt_match
first_receipt_last(m) == m[Len(m)]
\* the receipt an invoice is given: receipt_match.iloc[0]
first_receipt(m) == m[1]

\* one iteration of "for idx, inv_row in invoices.iterrows()"
ArIter ==
    /\ step = "Account Receivable" /\ pc = "loop"
    /\ pos <= Len(output_rows)
    /\ LET m == receipt_match(df, output_rows[pos].Charge)
       IN  IF m = <<>>
           THEN output_rows' = output_rows
           ELSE output_rows' =
                    [output_rows EXCEPT
                        ![pos].Receipt = first_receipt(m),
                        ![pos].SalesReceiptAmount = df[first_receipt(m)].PaymentAmount]
    /\ pos' = pos + 1
    /\ UNCHANGED <<step, uploaded_file, frame, df, pc, used, result_df, workbook,
                   run, first_result>>

\* a row of df_transformed (lines 97-112)
ArRow(inv) ==
    [SalesInvoiceDate |-> "date", DateValue |-> inv.Date, VoucherNo |-> <<>>,
     Customer |-> inv.Customer, Charge |-> inv.Charge,
     SalesInvoiceAmount |-> inv.OriginalAmount,
     Amount |-> Round(inv.OriginalAmount),
     Receipt |-> inv.Receipt, SalesReceiptAmount |-> inv.SalesReceiptAmount,
     EndingBalance |-> inv.SalesReceiptAmount - Round(inv.OriginalAmount)]

\* the order of sort_values: ascending, NaT after every date
DateBefore(a, b) == notna(a) /\ (~notna(b) \/ a < b)

\* the orders df.sort_values(by=[date_col]) may leave the rows in: ascending
\* by date, the rows without a date last; the default sort of pandas is not
\* stable, so rows of one date come in an order the source does not fix
DateSorted(rows) ==
    {[k \in 1..Len(rows) |-> rows[perm[k]]] :
        perm \in {q \in [1..Len(rows) -> 1..Len(rows)] :
                    /\ \A i, j \in 1..Len(rows) : i # j => q[i] # q[j]
                    /\ \A i, j \in 1..Len(rows) :
                           i < j => ~DateBefore(rows[q[j]].DateValue,
                                                rows[q[i]].DateValue)}}

\* the loop over df["YearMonth"] of the sorted frame (lines 10-17): a counter
\* per month, f"AR-{ym}-{counters[ym]:03d}"
voucher_numbers(sorted) ==
    [k \in 1..Len(sorted) |->
        [sorted[k] EXCEPT !.VoucherNo =
            <<"AR", YearMonth(sorted[k].DateValue),
              Cardinality({j \in 1..k :
                  YearMonth(sorted[j].DateValue) = YearMonth(sorted[k].DateValue)})>>]]

\* generate_voucher_numbers_op (lines 131-154), which no transform calls:
\* the rows in the order given, a counter per (year, month), and no number
\* for a row without a date ("if pd.isna(date): continue")
generate_voucher_numbers_op(rows) ==
    [k \in 1..Len(rows) |->
        [rows[k] EXCEPT !.VoucherNo =
            IF notna(rows[k].DateValue)
            THEN <<"OP", MonthOf(rows[k].DateValue),
                   Cardinality({j \in 1..k :
                       /\ notna(rows[j].DateValue)
                       /\ MonthOf(rows[j].DateValue) = MonthOf(rows[k].DateValue)})>>
            ELSE <<>>]]

\* the frames generate_voucher_numbers may return
generate_voucher_numbers(rows) ==
    {voucher_numbers(sorted) : sorted \in DateSorted(rows)}

\* the order of groupby's keys: the customers' names in ascending order
CustomerRank(c) ==
    CASE c = <<"Acme">> -> 1 [] c = <<"Acme", " ">> -> 2 [] c = <<"Beta">> -> 3

RECURSIVE SortedCustomers(_)
SortedCustomers(S) ==
    IF S = {} THEN <<>>
    ELSE LET m == CHOOSE x \in S : \A y \in S : CustomerRank(x) <= CustomerRank(y)
         IN  <<m>> \o SortedCustomers(S \ {m})

ArSubtotalRow(cust, group) ==
    [SalesInvoiceDate |-> "None", DateValue |-> 0, VoucherNo |-> <<>>,
     Customer |-> cust \o <<" ", "Subtotal">>, Charge |-> 0,
     SalesInvoiceAmount |-> ColumnSum(group, "SalesInvoiceAmount"),
     Amount |-> ColumnSum(group, "Amount"),
     Receipt |-> 0,
     SalesReceiptAmount |-> ColumnSum(group, "SalesReceiptAmount"),
     EndingBalance |-> ColumnSum(group, "EndingBalance")]

\* a grouping that emits every row first and the subtotal rows after them
add_customer_subtotals_at_end(rows) ==
    LET custs == SortedCustomers({rows[i].Customer : i \in DOMAIN rows})
    IN  Flatten([k \in 1..Len(custs) |->
            SelectSeq(rows, LAMBDA r : r.Customer = custs[k])])
        \o [k \in 1..Len(custs) |->
               ArSubtotalRow(custs[k],
                   SelectSeq(rows, LAMBDA r : r.Customer = custs[k]))]

\* "for cust, group in df.groupby("Customer")": each group, then its
\* subtotal row
add_customer_subtotals(rows) ==
    LET custs == SortedCustomers({rows[i].Customer : i \in DOMAIN rows})
    IN  Flatten([k \in 1..Len(custs) |->
            LET group == SelectSeq(rows, LAMBDA r : r.Customer = custs[k])
            IN  Append(group, ArSubtotalRow(custs[k], group))])

\* the rest of transform_account_receivable (lines 96-129): the report rows,
\* sorted by date and numbered in generate_voucher_numbers, with the
\* customers' subtotals.  With no invoice there is no group and pd.concat([]) raises
\* ValueError.
ArFinish ==
    /\ step = "Account Receivable" /\ pc = "loop"
    /\ pos > Len(output_rows)
    /\ IF output_rows = <<>>
       THEN pc' = "error" /\ result_df' = <<>>
       ELSE /\ pc' = "done"
            /\ \E numbered \in generate_voucher_numbers(
                                    [k \in 1..Len(output_rows) |->
                                        ArRow(output_rows[k])]) :
                   result_df' = add_customer_subtotals(numbered)
    /\ workbook' = to_excel(step, result_df')
    /\ UNCHANGED <<step, uploaded_file, frame, df, pos, used, output_rows, run, first_result>>

\* --------------------------------- as_cleaner.py: transform_advance_sales

\* statistics.mode: the most frequent value, the first met of equally
\* frequent ones
Count(s, v) == Cardinality({i \in DOMAIN s : s[i] = v})
mode(s) ==
    s[CHOOSE i \in DOMAIN s :
          /\ \A j \in DOMAIN s : Count(s, s[j]) <= Count(s, s[i])
          /\ \A j \in 1..(i - 1) : Count(s, s[j]) < Count(s, s[i])]

SeqMin(s) == CHOOSE m \in {s[i] : i \in DOMAIN s} : \A i \in DOMAIN s : m <= s[i]

\* the keys of groupby(["Company Name", "Invoice", "Invoice Date"]) and their
\* order: ascending, column by column
AsKey(r) == <<r.Customer, r.InvNo, r.Date>>
AsKeyBefore(k1, k2) ==
    \/ VendorRank(k1[1]) < VendorRank(k2[1])
    \/ /\ k1[1] = k2[1]
       /\ \/ k1[2] < k2[2]
          \/ k1[2] = k2[2] /\ k1[3] < k2[3]

RECURSIVE SortedAsKeys(_)
SortedAsKeys(S) ==
    IF S = {} THEN <<>>
    ELSE LET m == CHOOSE x \in S : \A y \in S \ {x} : AsKeyBefore(x, y)
         IN  <<m>> \o SortedAsKeys(S \ {m})

\* grouped (lines 48-54): one row per key, with as_index=False under the
\* index 0, 1, ... in key order; the earliest Start_Month, the mode of
\* Total_Term and the sum of Amount of the key's items
as_grouped(d) ==
    LET keys == SortedAsKeys({AsKey(d[i]) : i \in DOMAIN d})
    IN  [k \in 1..Len(keys) |->
            LET items == SelectSeq(Idx(d), LAMBDA i : AsKey(d[i]) = keys[k])
            IN  [Index |-> k - 1, Charge |-> items[1],
                 Company |-> keys[k][1], Invoice |-> keys[k][2],
                 InvoiceDate |-> keys[k][3],
                 Start_Month |->
                     SeqMin([j \in 1..Len(items) |-> d[items[j]].StartMonth]),
                 Total_Term |->
                     mode([j \in 1..Len(items) |-> d[items[j]].Term]),
                 Amount |->
                     SumSeq([j \in 1..Len(items) |-> d[items[j]].TotalPrice])]]

\* an invoice of one month that is dated in the month it starts in
is_same_month(r) ==
    r.Total_Term = 1 /\ YearMonth(r.InvoiceDate) = r.Start_Month

\* the row of the loop over grouped.iterrows() (lines 81-99): i is the
\* index of the row in grouped, which the filter of line 71 leaves as it was
AsRow(row) ==
    [Date |-> "date", DateValue |-> row.InvoiceDate,
     VoucherNo |-> <<"AR", YearMonth(row.InvoiceDate), row.Index + 1>>,
     Company |-> row.Company, Invoice |-> row.Invoice, Charge |-> row.Charge,
     Amount |-> row.Amount]

\* total_row (lines 182-188): the sums of the numeric columns, "" in the
\* others, "TOTAL" as Company Name
AsTotalRow(rows) ==
    [Date |-> "", DateValue |-> 0, VoucherNo |-> <<>>, Company |-> "TOTAL",
     Invoice |-> 0, Charge |-> 0, Amount |-> ColumnSum(rows, "Amount")]

\* transform_advance_sales, on a copy of the table.  When the filter of
\* line 71 leaves no invoice, grouped.apply(..., axis=1) returns a frame of
\* all the columns of grouped and its assignment to grouped["Period"] (line
\* 73) raises ValueError.
AsTransform ==
    /\ step = "Advance Sales" /\ pc = "start"
    /\ LET kept == SelectSeq(as_grouped(df), LAMBDA r : ~is_same_month(r))
           all_periods == [k \in 1..Len(kept) |-> AsRow(kept[k])]
       IN  /\ output_rows' = all_periods
           /\ IF AsHeader \subseteq frame.columns /\ kept # <<>>
              THEN /\ pc' = "done"
                   /\ result_df' = Append(all_periods, AsTotalRow(all_periods))
              ELSE pc' = "error" /\ result_df' = <<>>
    /\ workbook' = to_excel(step, result_df')
    /\ UNCHANGED <<step, uploaded_file, frame, df, pos, used, run, first_result>>

\* ------------------------------------------------------------- app.py

\* st.button("Transform to ... Format") of a strict-amount cleaner: the
\* transform starts on the table read from the uploaded file.
\* transform_advance_payment and transform_other_receivable normalize the
\* table in place; transform_temp_receipt works on the frame df.rename
\* returns, and df["debit"] raises KeyError unless the column is named
\* "Debit" exactly.
Transform ==
    /\ step \in STRICT /\ pc = "start"
    /\ pos' = 1 /\ used' = {} /\ output_rows' = <<>>
    /\ frame' = IF step = "Temporary Receipt" THEN frame ELSE normalize(frame)
    /\ pc' = IF {<<"Debit">>, <<"Credit">>} \subseteq frame'.columns
             THEN "loop" ELSE "error"
    /\ UNCHANGED <<step, uploaded_file, df, result_df, workbook, run, first_result>>

\* row["Date"] in the body of the loop raises KeyError when the column is
\* missing
LoopKeyError ==
    /\ step \in STRICT /\ pc = "loop"
    /\ pos <= Len(CASE step = "Advance Payment" -> advances(df)
                    [] step = "Other Receivable" -> ors(df)
                    [] step = "Temporary Receipt" -> tr_df(df))
    /\ ~(LoopColumns(step) \subseteq frame.columns)
    /\ pc' = "error"
    /\ UNCHANGED <<step, uploaded_file, frame, df, pos, used, output_rows,
                   result_df, workbook, run, first_result>>

\* a second click of the button: streamlit runs the script again, on the
\* same uploaded file
Rerun ==
    /\ pc = "done" /\ run = 1
    /\ run' = 2 /\ first_result' = output_rows
    /\ pc' = "start" /\ pos' = 1 /\ used' = {} /\ output_rows' = <<>>
    /\ result_df' = <<>> /\ workbook' = <<>>
    /\ frame' = read_excel(uploaded_file)
    /\ UNCHANGED <<step, uploaded_file, df>>

\* a table has an empty amount cell
HasEmptyAmount(d) == \E i \in DOMAIN d : d[i].Debit = 0 \/ d[i].Credit = 0

Init ==
    /\ \/ /\ step \in STRICT /\ df \in Tables(StrictRows, MaxRows)
          /\ uploaded_file \in StrictFiles
       \/ /\ step = "Other Payable(RCJ)" /\ df \in Tables(RcjRows, MaxRcjRows)
          /\ uploaded_file \in RcjFiles
       \/ /\ step = "Account Payable" /\ df \in Tables(ApRows, MaxApRows)
          /\ uploaded_file \in ApFiles
       \/ /\ step = "Other Payable" /\ df \in Tables(OpRows, MaxApRows)
          /\ uploaded_file \in OpFiles
       \/ /\ step = "Account Receivable" /\ df \in Tables(ArRows, MaxArRows)
          /\ uploaded_file \in ArFiles
       \/ /\ step = "Advance Sales" /\ df \in Tables(AsRows, MaxAsRows)
          /\ uploaded_file \in AsFiles
    /\ uploaded_file.blanks => HasEmptyAmount(df)
    /\ frame = read_excel(uploaded_file)
    /\ pc = "start" /\ pos = 1 /\ used = {} /\ output_rows = <<>>
    /\ result_df = <<>> /\ workbook = <<>> /\ run = 1 /\ first_result = <<>>

Next ==
    \/ Transform \/ LoopKeyError
    \/ AdvIter \/ AdvTotal
    \/ OrIter \/ OrTotal
    \/ TrIter \/ TrTotal
    \/ RcjTransform
    \/ ApTransform
    \/ OpTransform
    \/ ArStart \/ ArIter \/ ArFinish
    \/ AsTransform
    \/ Rerun

Spec == Init /\ [][Next]_vars

\* ------------------------------------------------------------ properties

\* the rows of a returned report but its last one
Body(rd) == SubSeq(rd, 1, Len(rd) - 1)
Last(rd) == rd[Len(rd)]

\* the charges and the settlements of a strict-amount cleaner, as the
\* labels of their input rows in input order
Charges(s, d) ==
    IF s = "Temporary Receipt"
    THEN SelectSeq(Idx(d), LAMBDA i : d[i].Credit > 0)
    ELSE SelectSeq(Idx(d), LAMBDA i : d[i].Debit > 0)
Settlements(s, d) ==
    IF s = "Temporary Receipt"
    THEN SelectSeq(Idx(d), LAMBDA i : d[i].Debit > 0)
    ELSE SelectSeq(Idx(d), LAMBDA i : d[i].Credit > 0)

\* the amounts a cleaner reports for a charge and for a settlement
ChargeAmount(s, d, i) ==
    CASE s = "Temporary Receipt" -> d[i].Credit
      [] s = "Other Receivable" -> Round(d[i].Debit)
      [] OTHER -> d[i].Debit
SettlementAmount(s, d, i) ==
    CASE s = "Temporary Receipt" -> d[i].Debit
      [] s = "Other Receivable" -> Round(d[i].Credit)
      [] OTHER -> d[i].Credit

\* the outstanding column: "Ending Balance" in the other-receivable report
Balance(r) == IF "EndingBalance" \in DOMAIN r THEN r.EndingBalance ELSE r.Outstanding

SeqToSet(s) == {s[i] : i \in DOMAIN s}

\* C1: in the three strict-amount cleaners no settlement row is paired with
\* more than one charge: at every point of a run, two emitted rows never
\* name the same payment row, and every paired payment is in the used set
\* (by label in advance payment and temporary receipt, by position in
\* payments in other receivable).
C1_SettlementUsedAtMostOnce ==
    step \in STRICT =>
        /\ \A i, j \in DOMAIN output_rows :
               (i # j /\ output_rows[i].Payment # 0)
                   => output_rows[i].Payment # output_rows[j].Payment
        /\ \A i \in DOMAIN output_rows :
               output_rows[i].Payment # 0 =>
                   IF step = "Other Receivable"
                   THEN \E k \in used : or_payments(df)[k] = output_rows[i].Payment
                   ELSE output_rows[i].Payment \in used
        /\ pc = "done" => Body(result_df) = output_rows

\* two charges of one reported amount were each paired, with a payment each
C1_Witness ==
    /\ step = "Other Receivable" /\ pc = "done"
    /\ \E i, j \in DOMAIN output_rows :
           /\ i < j
           /\ output_rows[i].Payment # 0 /\ output_rows[j].Payment # 0
           /\ output_rows[i].Amount = output_rows[j].Amount

\* The reference procedure of strict-amount, first-available matching: the
\* charges are taken in order; a charge takes the first settlement left in
\* the pool whose amount is the charge's, which leaves the pool.
RemoveAt(s, k) == SubSeq(s, 1, k - 1) \o SubSeq(s, k + 1, Len(s))

RECURSIVE RefMatch(_, _, _, _)
RefMatch(s, d, charges, pool) ==
    IF charges = <<>> THEN <<>>
    ELSE LET c == Head(charges)
             amt == ChargeAmount(s, d, c)
             hits == {k \in 1..Len(pool) : SettlementAmount(s, d, pool[k]) = amt}
         IN  IF hits # {}
             THEN LET k == CHOOSE k \in hits : \A h \in hits : k <= h
                  IN  <<[Date |-> "date", Charge |-> c, Amount |-> amt,
                         Payment |-> pool[k],
                         PaymentAmount |-> SettlementAmount(s, d, pool[k]),
                         Outstanding |-> 0]>>
                      \o RefMatch(s, d, Tail(charges), RemoveAt(pool, k))
             ELSE <<[Date |-> "date", Charge |-> c, Amount |-> amt,
                     Payment |-> 0, PaymentAmount |-> 0, Outstanding |-> amt]>>
                  \o RefMatch(s, d, Tail(charges), pool)

\* C2: the rows transform_advance_payment and transform_temp_receipt return
\* before the TOTAL row are those of the reference procedure (strict
\* amount, first available, outstanding 0 on a match and the charge amount
\* otherwise), for every input.
C2_FirstAvailableMatching ==
    (pc = "done" /\ step \in {"Advance Payment", "Temporary Receipt"}) =>
        Body(result_df) = RefMatch(step, df, Charges(step, df), Settlements(step, df))

\* charges [1.0, 2.0] and one settlement [2.0]: the first charge is
\* unmatched with its amount outstanding, the second is matched
C2_Witness ==
    /\ pc = "done" /\ step = "Advance Payment"
    /\ Len(result_df) = 3
    /\ result_df[1].Payment = 0 /\ result_df[1].Outstanding = 2
    /\ result_df[2].Payment # 0 /\ result_df[2].Outstanding = 0
    /\ result_df[2].Amount = 4

\* C3 (as the spec states it): when a strict-amount cleaner returns, every
\* settlement that was paired with no charge is a row of the report, in an
\* "Unmatched Payments" partition.
C3_UnmatchedSettlementsReported ==
    (pc = "done" /\ step \in STRICT) =>
        \A p \in SeqToSet(Settlements(step, df)) :
            (\A i \in DOMAIN result_df : result_df[i].Payment # p)
                => \E i \in DOMAIN result_df :
                       /\ result_df[i].Date = "Unmatched Payments"
                       /\ result_df[i].Payment = p

\* C4: conservation.  When a strict-amount cleaner returns, the outstanding
\* column summed over the charge rows is the sum of the reported charge
\* amounts minus the sum of the reported amounts of the paired settlements,
\* and the TOTAL row has Outstanding = Amount - Payment Amount.
C4_Conservation ==
    (pc = "done" /\ step \in STRICT) =>
        LET rows == Body(result_df)
            owed == SumSeq([i \in DOMAIN rows |->
                               ChargeAmount(step, df, rows[i].Charge)])
            paid == SumSeq([i \in DOMAIN rows |->
                               IF rows[i].Payment = 0 THEN 0
                               ELSE SettlementAmount(step, df, rows[i].Payment)])
        IN  /\ SumSeq([i \in DOMAIN rows |-> Balance(rows[i])]) = owed - paid
            /\ Balance(Last(result_df))
                   = Last(result_df).Amount - Last(result_df).PaymentAmount

\* a report with a paired and an unpaired charge
C4_Witness ==
    /\ pc = "done" /\ step = "Temporary Receipt"
    /\ \E i, j \in DOMAIN Body(result_df) :
           /\ result_df[i].Payment # 0
           /\ result_df[j].Payment = 0 /\ result_df[j].Amount > 0

\* the summed columns of a report with a TOTAL row, and a cell's number
TotalledColumns(s) ==
    CASE s = "Other Receivable" ->
             {"OriginalAmount", "Amount", "PaymentAmount", "EndingBalance"}
      [] s = "Other Payable(RCJ)" ->
             {"Amount", "ExchangeGainLoss", "AmountAfter", "Outstanding"}
      [] OTHER -> {"Amount", "PaymentAmount", "Outstanding"}
CellValue(s, c) == IF s = "Other Payable(RCJ)" THEN (IF c.blank THEN 0 ELSE c.v) ELSE c

\* C5: total correctness.  In every returned report with a TOTAL row (the
\* strict-amount cleaners and the other-payable RCJ cleaner), the TOTAL row
\* is the last row, no other row is a TOTAL row, and each of its numeric
\* columns is the sum of that column over the other rows, a blank cell
\* counting as 0.
C5_TotalCorrectness ==
    (pc = "done" /\ step \in STRICT \cup {"Other Payable(RCJ)"}) =>
        /\ Last(result_df).Date = "TOTAL"
        /\ \A i \in DOMAIN Body(result_df) : result_df[i].Date # "TOTAL"
        /\ \A col \in TotalledColumns(step) :
               /\ step = "Other Payable(RCJ)" => ~Last(result_df)[col].blank
               /\ CellValue(step, Last(result_df)[col])
                      = SumSeq([i \in DOMAIN Body(result_df) |->
                                   CellValue(step, result_df[i][col])])

\* an RCJ report of two transaction numbers, one with a blank Amount and one
\* with a number, under a TOTAL row
C5_Witness ==
    /\ pc = "done" /\ step = "Other Payable(RCJ)"
    /\ Len(result_df) = 3
    /\ result_df[1].Amount.blank /\ ~result_df[2].Amount.blank
    /\ result_df[3].Amount.v = result_df[2].Amount.v

\* C8 (as the spec states it): the classifier's charges and settlements are
\* disjoint, and a row whose debit and credit are both zero is in neither.
C8_ClassesDisjoint ==
    (step \in STRICT /\ pc # "start") =>
        /\ SeqToSet(Charges(step, df)) \cap SeqToSet(Settlements(step, df)) = {}
        /\ \A i \in DOMAIN df :
               (df[i].Debit = 0 /\ df[i].Credit = 0)
                   => i \notin SeqToSet(Charges(step, df)) \cup SeqToSet(Settlements(step, df))

\* C9: a strict-amount cleaner returns one row per charge, in the charges'
\* input order, then the TOTAL row as the last row: the report has as many
\* rows as there are charges plus one, its i-th row carries the i-th
\* charge's fields and amount, and only the last row is the TOTAL row.
C9_OneRowPerCharge ==
    (pc = "done" /\ step \in STRICT) =>
        LET ch == Charges(step, df)
        IN  /\ Len(result_df) = Len(ch) + 1
            /\ \A i \in DOMAIN ch :
                   /\ result_df[i].Charge = ch[i]
                   /\ result_df[i].Amount = ChargeAmount(step, df, ch[i])
                   /\ result_df[i].Date # "TOTAL"
            /\ Last(result_df).Date = "TOTAL"

\* a report of three charges, none of them paired, and one with a payment
\* row between two charges
C9_Witness ==
    /\ pc = "done" /\ step = "Advance Payment"
    /\ Len(result_df) = 3
    /\ result_df[1].Charge = 1 /\ result_df[2].Charge = 3

\* the reports with groups and subtotals, and their rows' kinds as the label
\* column tells them: Customer in the account-receivable report, Date in the
\* account-payable report
GROUPED == {"Account Receivable", "Account Payable", "Other Payable"}
IsSubtotalRow(s, r) ==
    IF s = "Account Receivable"
    THEN \E k \in DOMAIN r.Customer : r.Customer[k] = "Subtotal"
    ELSE \E k \in DOMAIN r.Date : r.Date[k] = "Subtotal"
IsGrandTotalRow(s, r) ==
    IF s = "Account Receivable"
    THEN \E k \in DOMAIN r.Customer : r.Customer[k] \in {"Total", "TOTAL"}
    ELSE r.Date \in {<<"Total">>, <<"TOTAL">>}
NumericColumns(s) ==
    IF s = "Account Receivable"
    THEN {"SalesInvoiceAmount", "Amount", "SalesReceiptAmount", "EndingBalance"}
    ELSE {"OriginalAmount", "Amount", "PaymentAmount", "EndingBalance"}

\* C6 (as the spec states it): a returned grouped report ends with exactly
\* one grand Total row, after all groups and subtotals, whose numeric columns
\* are the sums over the rows that are neither subtotal nor total.
C6_GrandTotalLast ==
    (pc = "done" /\ step \in GROUPED) =>
        /\ IsGrandTotalRow(step, Last(result_df))
        /\ \A i \in DOMAIN Body(result_df) : ~IsGrandTotalRow(step, result_df[i])
        /\ LET plain == SelectSeq(Body(result_df),
                                  LAMBDA r : ~IsSubtotalRow(step, r))
           IN  \A col \in NumericColumns(step) :
                   Last(result_df)[col] = ColumnSum(plain, col)

C10_OneRowPerInvoice ==
    (pc = "done" /\ step = "Account Payable") =>
        LET plain == SelectSeq(result_df, LAMBDA r : ~IsSubtotalRow(step, r))
        IN  /\ Len(plain) = Len(ap_df(df))
            /\ \A a \in SeqToSet(ap_df(df)) :
                   Cardinality({i \in DOMAIN plain : plain[i].Charge = a}) = 1

\* ---------------------------------------------- reference expansion (AP)

\* the rows of the merge that carry the voucher of payment row p
AttributedTo(rows, p) == SelectSeq(rows, LAMBDA r : r.Payment = p)

\* C11 (as the spec states it): in the account-payable report the Payment
\* Amount summed over the rows attributed to one payment row equals that
\* payment row's amount (the full amount on the row of the first fragment,
\* 0 on the rows of later fragments).
C11_PaymentAttributedOnce ==
    (pc = "done" /\ step = "Account Payable") =>
        \A p \in SeqToSet(ap_pay_df(df)) :
            AttributedTo(output_rows, p) # <<>> =>
                ColumnSum(AttributedTo(output_rows, p), "PaymentAmount")
                    = df[p].Debit

\* ------------------------------- at-most-once use in the reference matchers

\* C12 (as the spec states it): in match_sales_receipts no receipt row, and
\* in transform_account_payable no payment fragment, is attached to more
\* than one charge of a run.
C12_SettlementAttachedOnce ==
    /\ (pc = "done" /\ step = "Account Receivable") =>
           \A i, j \in DOMAIN output_rows :
               (i # j /\ output_rows[i].Receipt # 0)
                   => output_rows[i].Receipt # output_rows[j].Receipt
    /\ (pc = "done" /\ step = "Account Payable") =>
           \A i, j \in DOMAIN output_rows :
               (output_rows[i].Payment # 0
                    /\ output_rows[i].Charge # output_rows[j].Charge)
                   => output_rows[i].Fragment # output_rows[j].Fragment

\* ------------------------------------------------------ groups and subtotals

\* the key a report row is grouped by and the cell that carries a subtotal
\* row's label, both as sequences of tokens
GroupKey(s, r) == IF s = "Account Receivable" THEN r.Customer ELSE <<r.Vendor>>
LabelCell(s, r) == IF s = "Account Receivable" THEN r.Customer ELSE r.Date

SubtotalPositions(s, rd) == {k \in DOMAIN rd : IsSubtotalRow(s, rd[k])}

\* the rows between the subtotal row at k and the subtotal row before it
Members(s, rd, k) ==
    LET before == {j \in SubtotalPositions(s, rd) : j < k}
        start == IF before = {} THEN 1
                 ELSE (CHOOSE j \in before : \A i \in before : i <= j) + 1
    IN  SubSeq(rd, start, k - 1)

\* every group's rows are contiguous and directly followed by one subtotal
\* row that carries the sums of the group's numeric columns
GroupsThenSubtotals(s, rd) ==
    /\ Len(rd) \in SubtotalPositions(s, rd)
    /\ \A k \in SubtotalPositions(s, rd) :
           LET m == Members(s, rd, k)
           IN  /\ m # <<>>
               /\ \A i \in DOMAIN m : GroupKey(s, m[i]) = GroupKey(s, m[1])
               /\ \A col \in NumericColumns(s) : rd[k][col] = ColumnSum(m, col)
    /\ \A k1, k2 \in SubtotalPositions(s, rd) :
           k1 # k2 => GroupKey(s, Members(s, rd, k1)[1])
                          # GroupKey(s, Members(s, rd, k2)[1])

\* C13 (as the spec states it): in the account-receivable and the
\* account-payable report the rows of each group are contiguous and directly
\* followed by exactly one subtotal row with the sums of the group's numeric
\* columns, whose label reads "{group key} Subtotal".
C13_SubtotalAfterGroup ==
    (pc = "done" /\ step \in {"Account Receivable", "Account Payable"}) =>
        /\ GroupsThenSubtotals(step, result_df)
        /\ \A k \in SubtotalPositions(step, result_df) :
               LabelCell(step, result_df[k])
                   = GroupKey(step, Members(step, result_df, k)[1])
                         \o <<" ", "Subtotal">>

\* C13 (amended): the same, with the label as each report writes it: the
\* Customer cell "{customer} Subtotal" in the account-receivable report, the
\* Date cell "Subtotal {vendor}" in the account-payable report.
C13_SubtotalAfterGroupAmended ==
    (pc = "done" /\ step \in {"Account Receivable", "Account Payable"}) =>
        /\ GroupsThenSubtotals(step, result_df)
        /\ \A k \in SubtotalPositions(step, result_df) :
               LET key == GroupKey(step, Members(step, result_df, k)[1])
               IN  LabelCell(step, result_df[k]) =
                       IF step = "Account Receivable"
                       THEN key \o <<" ", "Subtotal">>
                       ELSE <<"Subtotal", " ">> \o key

\* an account-receivable report of two customers, two invoices of the first
\* and one of the second, each group with its subtotal
C13_Witness ==
    /\ pc = "done" /\ step = "Account Receivable"
    /\ Len(result_df) = 5
    /\ SubtotalPositions(step, result_df) = {3, 5}

\* ------------------------------------------------------------- group order

\* the position at which a group key is first seen in the rows handed to the
\* aggregation
FirstSeen(s, rows, key) ==
    CHOOSE i \in DOMAIN rows :
        /\ GroupKey(s, rows[i]) = key
        /\ \A j \in DOMAIN rows : GroupKey(s, rows[j]) = key => i <= j

\* the earliest date among the rows of a group
FirstDate(s, rows, key) ==
    CHOOSE dv \in {rows[i].DateValue : i \in DOMAIN rows} :
        /\ \E i \in DOMAIN rows :
               GroupKey(s, rows[i]) = key /\ rows[i].DateValue = dv
        /\ \A i \in DOMAIN rows :
               GroupKey(s, rows[i]) = key => dv <= rows[i].DateValue

\* C14 (as the spec states it): the groups come in first-seen order.  In the
\* account-payable report a group that precedes another was first seen
\* before it in the merged rows; in the account-receivable report, whose
\* rows are aggregated in date order, a group that precedes another does not
\* have its first row after the other's.
C14_FirstSeenGroupOrder ==
    (pc = "done" /\ step \in {"Account Receivable", "Account Payable"}) =>
        LET plain == SelectSeq(result_df, LAMBDA r : ~IsSubtotalRow(step, r))
        IN  \A i, j \in DOMAIN plain :
                (i < j /\ GroupKey(step, plain[i]) # GroupKey(step, plain[j])) =>
                    IF step = "Account Payable"
                    THEN FirstSeen(step, output_rows, GroupKey(step, plain[i]))
                           < FirstSeen(step, output_rows, GroupKey(step, plain[j]))
                    ELSE FirstDate(step, plain, GroupKey(step, plain[i]))
                           <= FirstDate(step, plain, GroupKey(step, plain[j]))

\* ---------------------------------------------------------- ending balance

\* the settlement amount a report row shows
SettledAmount(s, r) ==
    IF s = "Account Receivable" THEN r.SalesReceiptAmount ELSE r.PaymentAmount

\* C15 (as the spec states it): in the account-receivable and the
\* account-payable report the ending balance of a row is its charge amount
\* minus its matched settlement amount, the charge amount itself when no
\* settlement is matched.
C15_EndingBalance ==
    (pc = "done" /\ step \in {"Account Receivable", "Account Payable"}) =>
        \A i \in DOMAIN result_df :
            ~IsSubtotalRow(step, result_df[i]) =>
                result_df[i].EndingBalance
                    = result_df[i].Amount - SettledAmount(step, result_df[i])

\* ---------------------------------------------------------- voucher numbers

\* the rows of a report that carry a voucher number
Numbered(s, rd) == SelectSeq(rd, LAMBDA r : ~IsSubtotalRow(s, r))
SameMonth(r1, r2) == MonthOf(r1.DateValue) = MonthOf(r2.DateValue)

\* within every month the numbers are 1, 2, ... with no gap and no repeat,
\* under the report's prefix and the month of the row's date
NumbersDense(s, rows) ==
    \A i \in DOMAIN rows :
        LET month == {j \in DOMAIN rows : SameMonth(rows[i], rows[j])}
        IN  /\ rows[i].VoucherNo[1] = (IF s = "Account Payable" THEN "AP" ELSE "AR")
            /\ notna(rows[i].DateValue)
                   => rows[i].VoucherNo[2] = MonthOf(rows[i].DateValue)
            /\ {rows[j].VoucherNo[3] : j \in month} = 1..Cardinality(month)
            /\ \A j \in month : i # j => rows[i].VoucherNo[3] # rows[j].VoucherNo[3]

\* within a month a row of an earlier date has the smaller number
NumbersInDateOrder(rows) ==
    \A i, j \in DOMAIN rows :
        (SameMonth(rows[i], rows[j]) /\ rows[i].DateValue < rows[j].DateValue)
            => rows[i].VoucherNo[3] < rows[j].VoucherNo[3]

\* of two rows of one date the one of the earlier input row has the smaller
\* number
TiesInInputOrder(rows) ==
    \A i, j \in DOMAIN rows :
        (rows[i].DateValue = rows[j].DateValue /\ rows[i].Charge < rows[j].Charge)
            => rows[i].VoucherNo[3] < rows[j].VoucherNo[3]

\* C16 (as the spec states it): in the account-receivable and the
\* account-payable report the rows are numbered in ascending date order,
\* ties in input order, and within every month the numbers start at 1 and
\* increase by 1 per row, with no gap and no repeat.
C16_VoucherMonotonicity ==
    (pc = "done" /\ step \in {"Account Receivable", "Account Payable"}) =>
        /\ NumbersDense(step, Numbered(step, result_df))
        /\ NumbersInDateOrder(Numbered(step, result_df))
        /\ TiesInInputOrder(Numbered(step, result_df))

\* ------------------------------------------------------ zero-amount charges

\* the charges of a run, as the labels of their input rows: the rows on the
\* owed side in a strict-amount cleaner, the rows whose transaction number
\* does not hold "paid" in the account-payable ledger
ChargeRows(s, d) ==
    IF s = "Account Payable"
    THEN {i \in DOMAIN d : ~is_payment(d[i].Trans_No)}
    ELSE SeqToSet(Charges(s, d))

\* the amount on the owed side of a charge row
OwedAmount(s, d, i) ==
    CASE s = "Account Payable" -> d[i].Credit
      [] s = "Temporary Receipt" -> d[i].Credit
      [] OTHER -> d[i].Debit

RequiredColumns(s) == IF s = "Account Receivable" THEN ArHeader ELSE StrictHeader

\* C18 (as the spec states it): a run on a workbook that lacks a required
\* column produces no report; it never completes with the missing column
\* replaced by a default.
C18_MissingColumnFails ==
    (pc = "done" /\ step \in STRICT \cup {"Account Receivable"}) =>
        RequiredColumns(step) \subseteq StripColumns(uploaded_file.columns)

\* ------------------------------------------------------------- frame effect

\* C19 (as the spec states it): when transform_advance_payment,
\* transform_other_receivable or transform_other_payable_rcj has returned,
\* the table the caller passed has the column names and the cell values it
\* was read with.
C19_InputNotMutated ==
    (pc = "done" /\ step \in {"Advance Payment", "Other Receivable",
                              "Other Payable(RCJ)"}) =>
        frame = read_excel(uploaded_file)

\* ------------------------------------------------------------------ row tags

\* what a report row is: the subtotal of a group, the total of the report,
\* or a normal row
RowKind(s, r) ==
    IF s \in GROUPED
    THEN IF IsSubtotalRow(s, r) THEN "subtotal"
         ELSE IF IsGrandTotalRow(s, r) THEN "total" ELSE "normal"
    ELSE IF s = "Advance Sales"
    THEN IF r.Company = "TOTAL" THEN "total" ELSE "normal"
    ELSE IF r.Date = "TOTAL" THEN "total" ELSE "normal"

\* C20 (as the spec states it): to_excel formats every row of a returned
\* report as what it is: every subtotal row as subtotal, only a total row
\* as total, and no normal row as either.
C20_RowsFormattedAsTagged ==
    pc = "done" =>
        /\ Len(workbook) = Len(result_df)
        /\ \A k \in DOMAIN result_df :
               workbook[k] = RowKind(step, result_df[k])

\* ------------------------------------------------------- rounded comparison

\* the payment rows a report pairs with a charge
PairedPayments(rows) == {rows[i].Payment : i \in DOMAIN rows} \ {0}

\* C21 (as the spec states it): in the three strict-amount cleaners amounts
\* are compared after rounding to whole units: a paired charge and payment
\* round to the same whole unit, and no charge is reported unmatched while a
\* payment that no row is paired with rounds to the same whole unit as it.
C21_MatchAfterRounding ==
    (pc = "done" /\ step \in STRICT) =>
        \A i \in DOMAIN output_rows :
            LET r == output_rows[i]
            IN  IF r.Payment # 0
                THEN Round(SettlementAmount(step, df, r.Payment))
                         = Round(ChargeAmount(step, df, r.Charge))
                ELSE \A p \in SeqToSet(Settlements(step, df)) \ PairedPayments(output_rows) :
                         Round(SettlementAmount(step, df, p))
                             # Round(ChargeAmount(step, df, r.Charge))

\* ------------------------------------------------------- cross reference

\* pat occurs in text, character for character
Occurs(pat, text) ==
    \E k \in 1..(Len(text) + 1) :
        /\ k + Len(pat) - 1 <= Len(text)
        /\ SubSeq(text, k, k + Len(pat) - 1) = pat

\* the receipts that qualify for an invoice, in input order: of its customer
\* after trimming, with its trimmed Invoice No in the description; folded
\* says whether the case of letters is ignored
Qualifying(d, inv, folded) ==
    SelectSeq(ar_receipts(d), LAMBDA i :
        /\ Strip(d[i].Customer) = Strip(d[inv].Customer)
        /\ IF folded
           THEN Occurs(Lower(Strip(d[inv].InvoiceNo)), Lower(d[i].Description))
           ELSE Occurs(Strip(d[inv].InvoiceNo), d[i].Description))

\* every invoice row of the report has the first qualifying receipt and its
\* Payment Amount as it is, or no receipt and 0 when none qualifies
FirstQualifyingGiven(folded) ==
    (pc = "done" /\ step = "Account Receivable") =>
        \A k \in DOMAIN result_df :
            LET r == result_df[k]
                q == Qualifying(df, r.Charge, folded)
            IN  r.Charge # 0 =>
                    IF q = <<>>
                    THEN r.Receipt = 0 /\ r.SalesReceiptAmount = 0
                    ELSE /\ r.Receipt = q[1]
                         /\ r.SalesReceiptAmount = df[q[1]].PaymentAmount

C22_WitnessCase ==
    /\ pc = "done" /\ step = "Account Receivable"
    /\ \E k \in DOMAIN result_df :
           /\ result_df[k].Charge # 0
           /\ df[result_df[k].Charge].InvoiceNo = <<"a">>
           /\ result_df[k].Receipt # 0

\* -------------------------------------------------- advance-sales vouchers

\* C23 (as the spec states it): in the advance-sales report every row's
\* Voucher No is AR, the month of its invoice date and a number; within a
\* month the numbers are 1, 2, ... with no gap, in ascending order of the
\* invoice dates.
C23_AdvanceSalesVoucherNumbers ==
    (pc = "done" /\ step = "Advance Sales") =>
        /\ NumbersDense(step, Body(result_df))
        /\ NumbersInDateOrder(Body(result_df))

\* ------------------------------------------------------- rows without a date

\* the rows without a date are numbered 1, 2, ... under the sentinel "00-00"
SentinelNumbered(rows) ==
    LET undated == {i \in DOMAIN rows : ~notna(rows[i].DateValue)}
    IN  /\ \A i \in undated :
               Len(rows[i].VoucherNo) = 3 /\ rows[i].VoucherNo[2] = Sentinel
        /\ {rows[i].VoucherNo[3] : i \in undated} = 1..Cardinality(undated)

\* the rows of a table as generate_voucher_numbers_op gets them
Dated(d) == [k \in DOMAIN d |-> [DateValue |-> d[k].Date, VoucherNo |-> <<>>]]

\* C24 (as the spec states it): a row whose date cannot be parsed neither
\* fails the run nor is dropped: generate_voucher_numbers,
\* generate_voucher_numbers_op and the generator of
\* transform_account_payable return as many rows as they get and number the
\* rows without a date 1, 2, ... under "00-00".
C24_UnparseableDateSentinel ==
    /\ (step = "Account Receivable" /\ pc = "error")
           => (~(ArHeader \subseteq StripColumns(uploaded_file.columns))
                  \/ ar_invoices(df) = <<>>)
    /\ (step = "Account Receivable" /\ pc = "done")
           => /\ Len(Numbered(step, result_df)) = Len(output_rows)
              /\ SentinelNumbered(Numbered(step, result_df))
    /\ (step = "Account Payable" /\ pc = "error")
           => (ap_pay_df(df) = <<>> \/ ap_df(df) = <<>>)
    /\ (step = "Account Payable" /\ pc = "done")
           => /\ Len(Numbered(step, result_df)) = Len(output_rows)
              /\ SentinelNumbered(Numbered(step, result_df))
    /\ step = "Other Payable"
           => /\ Len(generate_voucher_numbers_op(Dated(df))) = Len(df)
              /\ SentinelNumbered(generate_voucher_numbers_op(Dated(df)))

\* ---------------------------------------------------------- other payable

\* C25 (as the spec states it): on a table with the eight columns it selects
\* transform_other_payable does not end in an error.
C25_OtherPayableCompletes ==
    (step = "Other Payable" /\ OpHeader \subseteq uploaded_file.columns)
        => pc # "error"

\* -------------------------------------------------------- no charge rows

\* the uploaded workbook has the columns the step's cleaner reads
WellFormed ==
    CASE step \in STRICT -> uploaded_file.columns = StrictHeader
      [] step = "Account Receivable" -> uploaded_file.columns = ArHeader
      [] step = "Account Payable" -> uploaded_file.columns = ApHeader
      [] OTHER -> FALSE

\* the table has no charge row
NoCharges ==
    CASE step \in STRICT -> Charges(step, df) = <<>>
      [] step = "Account Receivable" -> ar_invoices(df) = <<>>
      [] step = "Account Payable" -> ap_df(df) = <<>>
      [] OTHER -> FALSE

\* C26 (as the spec states it): on a table without charge rows a cleaner
\* does not raise: a strict-amount cleaner returns the TOTAL row alone, with
\* 0 in its numeric columns, and a grouped report is empty.
C26_EmptyChargeSetCompletes ==
    (WellFormed /\ NoCharges) =>
        /\ pc # "error"
        /\ pc = "done" =>
               IF step \in STRICT
               THEN /\ Len(result_df) = 1
                    /\ result_df[1].Date = "TOTAL"
                    /\ result_df[1].Amount = 0
                    /\ result_df[1].PaymentAmount = 0
                    /\ Balance(result_df[1]) = 0
               ELSE result_df = <<>>

\* ------------------------------------------------------- maximum matching

\* the charges and the settlements of an amount, as the cleaner compares
\* amounts: rounded in the other-receivable cleaner
ChargesOf(a) ==
    {c \in SeqToSet(Charges(step, df)) : ChargeAmount(step, df, c) = a}
SettlementsOf(a) ==
    {p \in SeqToSet(Settlements(step, df)) : SettlementAmount(step, df, p) = a}
MatchedRowsOf(a) ==
    {i \in DOMAIN output_rows :
        /\ output_rows[i].Payment # 0
        /\ ChargeAmount(step, df, output_rows[i].Charge) = a}
Min(m, n) == IF m <= n THEN m ELSE n

\* C27: at the end of a run of a strict-amount cleaner, for every amount the
\* number of charges of that amount reported as matched is the smaller of
\* the number of charges and the number of settlements of the amount, and no
\* charge is reported unmatched while a settlement of its amount is unused.
C27_GreedyIsMaximum ==
    (pc = "done" /\ step \in STRICT) =>
        /\ \A c \in SeqToSet(Charges(step, df)) :
               LET a == ChargeAmount(step, df, c)
               IN  Cardinality(MatchedRowsOf(a))
                       = Min(Cardinality(ChargesOf(a)), Cardinality(SettlementsOf(a)))
        /\ \A i \in DOMAIN output_rows :
               output_rows[i].Payment = 0 =>
                   SettlementsOf(ChargeAmount(step, df, output_rows[i].Charge))
                       \subseteq PairedPayments(output_rows)

\* a run has ended with two charges of one amount and one settlement of it:
\* one charge matched, the other not
C27_Witness ==
    /\ pc = "done" /\ step = "Advance Payment"
    /\ \E a \in {2, 3, 4} :
           /\ Cardinality(ChargesOf(a)) = 2
           /\ Cardinality(SettlementsOf(a)) = 1
           /\ Cardinality(MatchedRowsOf(a)) = 1

\* ------------------------------------------------------------ permutations

RowOrders(n) ==
    {q \in [1..n -> 1..n] : \A i, j \in 1..n : i # j => q[i] # q[j]}
\* the table with its rows in the order q: row q[k] comes k-th
Permuted(d, q) == [k \in DOMAIN d |-> d[q[k]]]

\* the rows a strict-amount, first-available run gives on a table
RefRows(s, d) == RefMatch(s, d, Charges(s, d), Settlements(s, d))

Totals(r) == <<r.Amount, r.PaymentAmount, r.Outstanding>>

\* the pairs of rows of the table d that a run on its permutation pairs
PairsOf(rows, q) ==
    {<<q[rows[i].Charge], q[rows[i].Payment]>> :
        i \in {k \in DOMAIN rows : rows[k].Payment # 0}}

RECURSIVE AdvRun(_, _, _)
AdvRun(d, k, usedset) ==
    IF k > Len(advances(d)) THEN <<>>
    ELSE LET a == advances(d)[k]
             p == AdvScan(d, adv_payments(d), 1, usedset, d[a].Debit)
         IN  IF p # 0
             THEN <<AdvMatchedRow(d, a, p)>> \o AdvRun(d, k + 1, usedset \cup {p})
             ELSE <<AdvUnmatchedRow(d, a)>> \o AdvRun(d, k + 1, usedset)

\* the rows of the loop of transform_temp_receipt on a table, from its k-th
\* receipt on
RECURSIVE TrRun(_, _, _)
TrRun(d, k, usedset) ==
    IF k > Len(tr_df(d)) THEN <<>>
    ELSE LET t == tr_df(d)[k]
             m == payment_match(d, usedset, d[t].Credit)
         IN  IF m # <<>>
             THEN <<TrMatchedRow(d, t, m[1])>> \o TrRun(d, k + 1, usedset \cup {m[1]})
             ELSE <<TrUnmatchedRow(d, t)>> \o TrRun(d, k + 1, usedset)

\* the table with its Debit and Credit columns swapped
Swapped(d) == [k \in DOMAIN d |-> [Debit |-> d[k].Credit, Credit |-> d[k].Debit]]

C30_NoSelfPairing ==
    step \in STRICT =>
        \A i \in DOMAIN output_rows :
            output_rows[i].Payment # 0
                => output_rows[i].Payment # output_rows[i].Charge

====
